---- MODULE Spec2Model ----
(***************************************************************************)
(* Message-processing pipeline of the WhatsApp bot server: webhook         *)
(* fan-out, BotHandler.processMessage, BotHandler.handleStep and the       *)
(* DatabaseService operations over the conversations, messages and         *)
(* bot_sessions tables.                                                    *)
(***************************************************************************)
EXTENDS Integers, Sequences, FiniteSets, TLC

(***************************************************************************)
(* Text.  A JavaScript string is a sequence of one-character strings, so   *)
(* that String.prototype.includes and toLowerCase are computed.            *)
(***************************************************************************)
Upper == <<"A","B","C","D","E","F","G","H","I","J","K","L","M",
           "N","O","P","Q","R","S","T","U","V","W","X","Y","Z">>

Lower == <<"a","b","c","d","e","f","g","h","i","j","k","l","m",
           "n","o","p","q","r","s","t","u","v","w","x","y","z">>

\* one character of String.prototype.toLowerCase
LowerChar(c) ==
  IF \E i \in 1..Len(Upper) : Upper[i] = c
  THEN Lower[CHOOSE i \in 1..Len(Upper) : Upper[i] = c]
  ELSE c

\* String.prototype.toLowerCase
ToLowerCase(s) == [i \in 1..Len(s) |-> LowerChar(s[i])]

\* String.prototype.includes: pat occurs in s as a contiguous substring
Includes(s, pat) ==
  \E k \in 0..(Len(s) - Len(pat)) :
    \A j \in 1..Len(pat) : s[k + j] = pat[j]

TitleImage == <<"G","e","n","e","r","a","t","e"," ","I","m","a","g","e">>

TitleVideo == <<"G","e","n","e","r","a","t","e"," ","V","i","d","e","o">>

TitleInfo == <<"G","e","t"," ","I","n","f","o","r","m","a","t","i","o","n">>

WordImage == <<"i","m","a","g","e">>

WordVideo == <<"v","i","d","e","o">>

WordInfo == <<"i","n","f","o","r","m","a","t","i","o","n">>

\* the button labels of the welcome menu, in the order of the source
MenuButtons == <<TitleImage, TitleVideo, TitleInfo>>

(***************************************************************************)
(* JavaScript values.  Literal texts of the source are kept as one chunk;  *)
(* a template literal is the concatenation of its chunks and the           *)
(* interpolated text.  Undefined stands for undefined / null / SQL NULL.   *)
(***************************************************************************)
Undefined == <<"<undefined>">>

\* a value that the || operator skips (undefined, null or the empty string)
Falsy(v) == v = Undefined \/ v = <<>>

\* a || b
Or(a, b) == IF Falsy(a) THEN b ELSE a

\* the object {}
EmptyData == [k \in {} |-> <<>>]

\* a session_data column holding SQL NULL
NullData == [k \in {"<null>"} |-> "<null>"]

\* { ...sessionData, service: v }
WithService(sessionData, v) ==
  [k \in (DOMAIN sessionData) \cup {"service"} |->
     IF k = "service" THEN v ELSE sessionData[k]]

\* an object literal of handleStep with none of its properties set
NoFields ==
  [type |-> "none", header |-> Undefined, body |-> Undefined, buttons |-> <<>>,
   content |-> Undefined, url |-> Undefined, mediaType |-> "none",
   caption |-> Undefined, nextStep |-> "none", sessionData |-> EmptyData]

(***************************************************************************)
(* Generation gateway: BotHandler.callCustomAPI.  upstream is what the     *)
(* axios.post of the call does: it resolves with response.data or rejects  *)
(* (network error, non-2xx status, 30 s timeout).                          *)
(***************************************************************************)
FallbackResult ==
  [imageUrl |-> <<"https://via.placeholder.com/400x400?text=Error+Generating+Image">>,
   videoUrl |-> <<"https://sample-videos.com/zip/10/mp4/SampleVideo_1280x720_1mb.mp4">>,
   response |-> <<"Sorry, I could not process your request right now. Please try again later.">>]

\* response.data of an answer whose body is the JSON literal null
NullResult == [null |-> TRUE]

\* callCustomAPI without the catch block's fallback
callCustomAPINoFallback(service, data, upstream) == upstream.data

callCustomAPI(service, data, upstream) ==
  IF upstream.ok THEN upstream.data ELSE FallbackResult

\* handleStep does not return: reading a property of null throws a TypeError
TypeError == [NoFields EXCEPT !.type = "TypeError"]

(***************************************************************************)
(* Dialog engine: BotHandler.handleStep.                                   *)
(***************************************************************************)
\* case 'welcome' with the buttons in another order
caseWelcomeReordered(sessionData) ==
  [NoFields EXCEPT !.type = "interactive",
                   !.header = <<"Welcome! (wave)">>,
                   !.body = <<"What would you like to do today?">>,
                   !.buttons = <<TitleVideo, TitleImage, TitleInfo>>,
                   !.nextStep = "menu_selection",
                   !.sessionData = sessionData]

\* case 'welcome'
caseWelcome(sessionData) ==
  [NoFields EXCEPT !.type = "interactive",
                   !.header = <<"Welcome! (wave)">>,
                   !.body = <<"What would you like to do today?">>,
                   !.buttons = MenuButtons,
                   !.nextStep = "menu_selection",
                   !.sessionData = sessionData]

\* case 'menu_selection' with the video branch tested before the image branch
caseMenuSelectionVideoFirst(sessionData, messageText) ==
  IF Includes(messageText, TitleVideo)
       \/ Includes(ToLowerCase(messageText), WordVideo)
  THEN [NoFields EXCEPT !.type = "text",
          !.content = <<"Awesome! Please describe the video you want me to create.">>,
          !.nextStep = "video_input",
          !.sessionData = WithService(sessionData, "video")]
  ELSE IF Includes(messageText, TitleImage)
       \/ Includes(ToLowerCase(messageText), WordImage)
  THEN [NoFields EXCEPT !.type = "text",
          !.content = <<"Great! Please describe the image you want me to generate.">>,
          !.nextStep = "image_input",
          !.sessionData = WithService(sessionData, "image")]
  ELSE IF Includes(messageText, TitleInfo)
       \/ Includes(ToLowerCase(messageText), WordInfo)
  THEN [NoFields EXCEPT !.type = "text",
          !.content = <<"What information would you like me to help you find?">>,
          !.nextStep = "info_input",
          !.sessionData = WithService(sessionData, "info")]
  ELSE [NoFields EXCEPT !.type = "text",
          !.content = <<"Please select one of the options: Generate Image, Generate Video, or Get Information.">>,
          !.nextStep = "menu_selection",
          !.sessionData = sessionData]

\* case 'menu_selection'
caseMenuSelection(sessionData, messageText) ==
  IF Includes(messageText, TitleImage)
       \/ Includes(ToLowerCase(messageText), WordImage)
  THEN [NoFields EXCEPT !.type = "text",
          !.content = <<"Great! Please describe the image you want me to generate.">>,
          !.nextStep = "image_input",
          !.sessionData = WithService(sessionData, "image")]
  ELSE IF Includes(messageText, TitleVideo)
       \/ Includes(ToLowerCase(messageText), WordVideo)
  THEN [NoFields EXCEPT !.type = "text",
          !.content = <<"Awesome! Please describe the video you want me to create.">>,
          !.nextStep = "video_input",
          !.sessionData = WithService(sessionData, "video")]
  ELSE IF Includes(messageText, TitleInfo)
       \/ Includes(ToLowerCase(messageText), WordInfo)
  THEN [NoFields EXCEPT !.type = "text",
          !.content = <<"What information would you like me to help you find?">>,
          !.nextStep = "info_input",
          !.sessionData = WithService(sessionData, "info")]
  ELSE [NoFields EXCEPT !.type = "text",
          !.content = <<"Please select one of the options: Generate Image, Generate Video, or Get Information.">>,
          !.nextStep = "menu_selection",
          !.sessionData = sessionData]

\* case 'image_input' with a caption that names the user
caseImageInputNamesUser(messageText, conversation, upstream) ==
  LET imageResult == callCustomAPI("image",
        [prompt |-> messageText, user |-> conversation.phone_number], upstream)
  IN IF imageResult = NullResult THEN TypeError ELSE
     [NoFields EXCEPT !.type = "media",
        !.url = imageResult.imageUrl,
        !.mediaType = "image",
        !.caption = <<"Here's your generated image, ">>
                      \o <<conversation.phone_number>> \o <<": \"">>
                      \o messageText \o <<"\"">>,
        !.nextStep = "welcome",
        !.sessionData = EmptyData]

\* case 'image_input'
caseImageInput(messageText, conversation, upstream) ==
  LET imageResult == callCustomAPI("image",
        [prompt |-> messageText, user |-> conversation.phone_number], upstream)
  IN IF imageResult = NullResult THEN TypeError ELSE
     [NoFields EXCEPT !.type = "media",
        !.url = imageResult.imageUrl,
        !.mediaType = "image",
        !.caption = <<"Here's your generated image based on: \"">>
                      \o messageText \o <<"\"">>,
        !.nextStep = "welcome",
        !.sessionData = EmptyData]

\* case 'video_input'
caseVideoInput(messageText, conversation, upstream) ==
  LET videoResult == callCustomAPI("video",
        [prompt |-> messageText, user |-> conversation.phone_number], upstream)
  IN IF videoResult = NullResult THEN TypeError ELSE
     [NoFields EXCEPT !.type = "media",
        !.url = videoResult.videoUrl,
        !.mediaType = "video",
        !.caption = <<"Here's your generated video: \"">>
                      \o messageText \o <<"\"">>,
        !.nextStep = "welcome",
        !.sessionData = EmptyData]

\* case 'info_input' leading to a step of its own
caseInfoInputEnds(messageText, conversation, upstream) ==
  LET infoResult == callCustomAPI("info",
        [query |-> messageText, user |-> conversation.phone_number], upstream)
  IN IF infoResult = NullResult THEN TypeError ELSE
     [NoFields EXCEPT !.type = "text",
        !.content = infoResult.response,
        !.nextStep = "end",
        !.sessionData = EmptyData]

\* case 'info_input'
caseInfoInput(messageText, conversation, upstream) ==
  LET infoResult == callCustomAPI("info",
        [query |-> messageText, user |-> conversation.phone_number], upstream)
  IN IF infoResult = NullResult THEN TypeError ELSE
     [NoFields EXCEPT !.type = "text",
        !.content = infoResult.response,
        !.nextStep = "welcome",
        !.sessionData = EmptyData]

\* default
caseDefault ==
  [NoFields EXCEPT !.type = "text",
     !.content = <<"Hi! Type \"start\" to begin or \"menu\" to see options.">>,
     !.nextStep = "welcome",
     !.sessionData = EmptyData]

\* session.session_data || {}
SessionDataOf(session) ==
  IF session.session_data = NullData THEN EmptyData ELSE session.session_data

handleStep(session, messageText, conversation, upstream) ==
  LET sessionData == SessionDataOf(session)
      step == session.current_step
  IN CASE step = "welcome" -> caseWelcome(sessionData)
       [] step = "menu_selection" -> caseMenuSelection(sessionData, messageText)
       [] step = "image_input" -> caseImageInput(messageText, conversation, upstream)
       [] step = "video_input" -> caseVideoInput(messageText, conversation, upstream)
       [] step = "info_input" -> caseInfoInput(messageText, conversation, upstream)
       [] OTHER -> caseDefault

(***************************************************************************)
(* Bounds and input domains.                                               *)
(***************************************************************************)
\* number of processMessage runs the webhook may start
MaxRuns == 2

\* last value of the clock (Date.now() and CURRENT_TIMESTAMP), in ms
MaxTime == 1

\* phone numbers (message.from)
Users == {"u1", "u2"}

\* platform message ids (message.id)
MsgIds == {<<"wamid.1">>, <<"wamid.2">>}

TextHi == <<"h","i">>

TextImage == <<"I","M","A","G","E">>

\* message.text.body of the messages the webhook receives
PipelineTexts == {TextImage}

(***************************************************************************)
(* Schema: initializeDatabase.  A table is the sequence of its rows in     *)
(* insertion order.                                                        *)
(***************************************************************************)
\* messages.message_id is declared UNIQUE
MessagesIdUnique == TRUE

\* bot_sessions.phone_number is declared NOT NULL only; idx_sessions_phone
\* is a plain index, so no unique constraint covers phone_number
SessionsPhoneUnique == FALSE

\* 30 * 60 * 1000 ms
SessionWindow == 1800000

VARIABLES
  now,            \* the clock
  alive,          \* the server process is running
  conversations,  \* table conversations
  messages,       \* table messages
  sessions,       \* table bot_sessions
  runs,           \* the processMessage invocations
  nRuns,          \* number of invocations started
  httpStatus,     \* status of the response to the latest webhook POST, 0: none yet
  hs,             \* a call of handleStep on its own
  req             \* an HTTP request to /webhook on its own, and its response

vars == <<now, alive, conversations, messages, sessions, runs, nRuns, httpStatus, hs, req>>

RunIds == 1..MaxRuns

NoConversation == [id |-> 0, phone_number |-> "none"]

NoSession == [session_data |-> EmptyData, current_step |-> "none"]

\* the columns of a conversations row that processMessage and handleStep read
ConversationOf(row) == [id |-> row.id, phone_number |-> row.phone_number]

\* the columns of a bot_sessions row that processMessage and handleStep read
SessionOf(row) == [session_data |-> row.session_data, current_step |-> row.current_step]

\* the rows of table t that satisfy the predicate given as a set of indices
RowsOf(t) == {t[i] : i \in 1..Len(t)}

(***************************************************************************)
(* DatabaseService: the SQL statements as operators on the tables.         *)
(***************************************************************************)
\* SELECT * FROM conversations WHERE phone_number = $1
\*   ORDER BY created_at DESC LIMIT 1
\* result.rows.  created_at is CURRENT_TIMESTAMP of the INSERT, so the order
\* of created_at is the order of insertion and the latest row is the last one
SelectConversation(convs, phoneNumber) ==
  LET mine == SelectSeq(convs, LAMBDA c : c.phone_number = phoneNumber)
  IN IF mine = <<>> THEN <<>> ELSE <<mine[Len(mine)]>>

\* INSERT INTO conversations (phone_number, user_name) VALUES ($1, $2) RETURNING *
\* id stands for the fresh gen_random_uuid() of the row
InsertConversation(convs, phoneNumber) ==
  Append(convs, [id |-> Len(convs) + 1, phone_number |-> phoneNumber])

\* saveMessage on a table whose message_id is not unique: every call inserts
saveMessageAlwaysInsert(msgs, row) ==
  [rows |-> Append(msgs, row), returned |-> <<row>>, error |-> FALSE]

\* saveMessage with ON CONFLICT (message_id) DO UPDATE in place of DO NOTHING
saveMessageOverwrite(msgs, row) ==
  IF \E m \in RowsOf(msgs) : m.message_id = row.message_id
  THEN [rows |-> [i \in 1..Len(msgs) |->
                   IF msgs[i].message_id = row.message_id THEN row ELSE msgs[i]],
        returned |-> <<row>>, error |-> FALSE]
  ELSE [rows |-> Append(msgs, row), returned |-> <<row>>, error |-> FALSE]

\* INSERT INTO messages ... ON CONFLICT (message_id) DO NOTHING RETURNING *
\* rows: the table afterwards; returned: result.rows; error: the query
\* rejects (never, for this statement: the conflict is absorbed)
saveMessage(msgs, row) ==
  IF /\ MessagesIdUnique
     /\ row.message_id # Undefined
     /\ \E m \in RowsOf(msgs) : m.message_id = row.message_id
  THEN [rows |-> msgs, returned |-> <<>>, error |-> FALSE]
  ELSE [rows |-> Append(msgs, row), returned |-> <<row>>, error |-> FALSE]

\* saveSession as a plain INSERT, without the ON CONFLICT clause
saveSessionPlainInsert(sess, phoneNumber, sessionData, currentStep, expiresAt) ==
  [rows |-> Append(sess, [phone_number |-> phoneNumber, session_data |-> sessionData,
                          current_step |-> currentStep, expires_at |-> expiresAt]),
   error |-> FALSE]

\* an upsert that stores the step and an empty payload
saveSessionDropsPayload(sess, phoneNumber, sessionData, currentStep, expiresAt) ==
  LET row == [phone_number |-> phoneNumber, session_data |-> EmptyData,
              current_step |-> currentStep, expires_at |-> expiresAt]
  IN IF \E i \in 1..Len(sess) : sess[i].phone_number = phoneNumber
     THEN [rows |-> [i \in 1..Len(sess) |->
                      IF sess[i].phone_number = phoneNumber THEN row ELSE sess[i]],
           error |-> FALSE]
     ELSE [rows |-> Append(sess, row), error |-> FALSE]

\* saveSession on a table whose phone_number is unique: the upsert
saveSessionUpsert(sess, phoneNumber, sessionData, currentStep, expiresAt) ==
  LET row == [phone_number |-> phoneNumber, session_data |-> sessionData,
              current_step |-> currentStep, expires_at |-> expiresAt]
  IN IF \E i \in 1..Len(sess) : sess[i].phone_number = phoneNumber
     THEN [rows |-> [i \in 1..Len(sess) |->
                      IF sess[i].phone_number = phoneNumber THEN row ELSE sess[i]],
           error |-> FALSE]
     ELSE [rows |-> Append(sess, row), error |-> FALSE]

\* INSERT INTO bot_sessions ... ON CONFLICT (phone_number) DO UPDATE SET ...
\* PostgreSQL rejects the statement when no unique index matches the
\* conflict target; error: the query rejects
saveSession(sess, phoneNumber, sessionData, currentStep, expiresAt) ==
  LET row == [phone_number |-> phoneNumber, session_data |-> sessionData,
              current_step |-> currentStep, expires_at |-> expiresAt]
  IN IF ~SessionsPhoneUnique
     THEN [rows |-> sess, error |-> TRUE]
     ELSE IF \E i \in 1..Len(sess) : sess[i].phone_number = phoneNumber
     THEN [rows |-> [i \in 1..Len(sess) |->
                      IF sess[i].phone_number = phoneNumber THEN row ELSE sess[i]],
           error |-> FALSE]
     ELSE [rows |-> Append(sess, row), error |-> FALSE]

\* getSession with expires_at >= CURRENT_TIMESTAMP
getSessionNotStrict(sess, phoneNumber, at) ==
  {s \in RowsOf(sess) : s.phone_number = phoneNumber /\ s.expires_at >= at}

\* SELECT * FROM bot_sessions WHERE phone_number = $1
\*   AND expires_at > CURRENT_TIMESTAMP
\* the rows the statement may return as rows[0]
getSession(sess, phoneNumber, at) ==
  {s \in RowsOf(sess) : s.phone_number = phoneNumber /\ s.expires_at > at}

(***************************************************************************)
(* Webhook POST: app.post('/webhook').                                     *)
(***************************************************************************)
\* the message objects a delivery may carry; text = Undefined is a message
\* without text.body (an image, a location, ...)
MessageObjects ==
  {[from |-> "u1", id |-> <<"wamid.1">>, text |-> TextImage],
   [from |-> "u1", id |-> <<"wamid.2">>, text |-> TextImage],
   [from |-> "u2", id |-> <<"wamid.1">>, text |-> TextImage],
   [from |-> "u2", id |-> <<"wamid.2">>, text |-> Undefined]}

\* a change object; hasValue = FALSE: change.value is missing;
\* hasMessages = FALSE: change.value.messages is missing
Change(field, hasValue, hasMessages, msgs) ==
  [field |-> field, hasValue |-> hasValue, hasMessages |-> hasMessages, messages |-> msgs]

MsgChange(msgs) == Change("messages", TRUE, TRUE, msgs)

Body(object, entry) == [object |-> object, entry |-> entry]

WA == "whatsapp_business_account"

\* request bodies: one message, two messages in one change, two messages in
\* two entries, a change of another field, another object, a change whose
\* value is missing after a good one, a change without messages, no entry
Bodies ==
  {Body(WA, << <<MsgChange(<<m>>)>> >>) : m \in MessageObjects}
  \cup {Body(WA, << <<MsgChange(<<m[1], m[2]>>)>> >>) : m \in MessageObjects \X MessageObjects}
  \cup {Body(WA, << <<MsgChange(<<m[1]>>)>>, <<MsgChange(<<m[2]>>)>> >>) :
          m \in MessageObjects \X MessageObjects}
  \cup {Body(WA, << <<Change("statuses", TRUE, TRUE, <<m>>)>> >>) : m \in MessageObjects}
  \cup {Body("page", << <<MsgChange(<<m>>)>> >>) : m \in MessageObjects}
  \cup {Body(WA, << <<MsgChange(<<m>>), Change("messages", FALSE, FALSE, <<>>)>> >>) :
          m \in MessageObjects}
  \cup {Body(WA, << <<Change("messages", TRUE, FALSE, <<>>)>> >>), Body(WA, <<>>)}

RECURSIVE Flatten(_)
\* the changes of all entries, in the order the nested forEach visits them
Flatten(entry) ==
  IF entry = <<>> THEN <<>> ELSE Head(entry) \o Flatten(Tail(entry))

\* every message of a change is handed to processMessage
WithTextOrNot(msgs) == msgs

\* the messages of a change that are handed to processMessage
WithText(msgs) == SelectSeq(msgs, LAMBDA m : ~Falsy(m.text))

RECURSIVE Walk(_)
\* the forEach over the changes: started = the messages handed to
\* processMessage, threw = a TypeError left the loop (change.value missing)
Walk(changes) ==
  IF changes = <<>> THEN [started |-> <<>>, threw |-> FALSE]
  ELSE LET c == Head(changes) IN
       IF c.field # "messages" THEN Walk(Tail(changes))
       ELSE IF ~c.hasValue THEN [started |-> <<>>, threw |-> TRUE]
       ELSE LET rest == Walk(Tail(changes))
                mine == IF c.hasMessages THEN WithText(c.messages) ELSE <<>>
            IN [started |-> mine \o rest.started, threw |-> rest.threw]

\* what the handler does with a body: the processMessage calls it makes and
\* the HTTP status it answers with
Dispatch(body) ==
  IF body.object = WA
  THEN LET w == Walk(Flatten(body.entry))
       IN [started |-> w.started, status |-> IF w.threw THEN 500 ELSE 200]
  ELSE [started |-> <<>>, status |-> 200]

\* the outcomes of the handler over the request bodies
Dispatches == {Dispatch(body) : body \in Bodies}

\* a processMessage invocation that has not been made
IdleRun ==
  [pc |-> "idle", delivery |-> 0, phoneNumber |-> "none", messageText |-> <<>>,
   messageId |-> Undefined, conversation |-> NoConversation, session |-> NoSession,
   loaded |-> FALSE, response |-> NoFields, sends |-> <<>>, failure |-> "none",
   inbound |-> "none", outbound |-> "none", outId |-> Undefined]

\* the handler awaiting processMessage to its end before it goes on
StartedRunAwaited(m, d) ==
  [IdleRun EXCEPT !.pc = "done", !.delivery = d,
                  !.phoneNumber = m.from, !.messageText = m.text, !.messageId = m.id]

\* processMessage(phoneNumber, messageText, messageId, userName) up to its
\* first await: the conversation SELECT is in flight
StartedRun(m, d) ==
  [IdleRun EXCEPT !.pc = "selectConversation", !.delivery = d,
                  !.phoneNumber = m.from, !.messageText = m.text, !.messageId = m.id]

\* the handler runs to its response without awaiting: every processMessage
\* call is started, then the response is sent.  A delivery is named by the
\* first run it may start.
Post(d) ==
  LET k == Len(d.started)
  IN /\ alive
     /\ nRuns + k <= MaxRuns
     /\ runs' = [r \in RunIds |->
                   IF r \in (nRuns + 1)..(nRuns + k)
                   THEN StartedRun(d.started[r - nRuns], nRuns + 1) ELSE runs[r]]
     /\ nRuns' = nRuns + k
     /\ httpStatus' = d.status
     /\ UNCHANGED <<now, alive, conversations, messages, sessions, hs>>

\* a POST with any of the request bodies
WebhookPost == \E d \in Dispatches : Post(d) /\ UNCHANGED req

(***************************************************************************)
(* The two /webhook routes on one request: req holds the request, the      *)
(* WEBHOOK_VERIFY_TOKEN the process was started with, and the response.    *)
(***************************************************************************)
NoBody == Body("none", <<>>)

NoRequest ==
  [method |-> "none", mode |-> Undefined, token |-> Undefined, challenge |-> Undefined,
   configured |-> Undefined, body |-> NoBody,
   answered |-> FALSE, status |-> 0, sent |-> Undefined]

\* process.env.WEBHOOK_VERIFY_TOKEN: a secret, or undefined when the variable
\* is not set
VerifyTokens == {<<"s3cret">>, Undefined}

\* req.query['hub.mode'], ['hub.verify_token'], ['hub.challenge']; Undefined:
\* the parameter is missing
GetRequests ==
  {[NoRequest EXCEPT !.method = "GET", !.mode = m, !.token = t, !.challenge = c,
                     !.configured = v] :
     m \in {<<"subscribe">>, <<"unsubscribe">>, Undefined},
     t \in {<<"s3cret">>, <<"guess">>, Undefined},
     c \in {<<"1158201444">>, Undefined},
     v \in VerifyTokens}

PostRequests ==
  {[NoRequest EXCEPT !.method = "POST", !.body = b, !.configured = <<"s3cret">>] :
     b \in Bodies}

\* app.get('/webhook'): === on the two query values
WebhookGet ==
  /\ alive
  /\ req.method = "GET" /\ ~req.answered
  /\ req' = IF req.mode = <<"subscribe">> /\ req.token = req.configured
            THEN [req EXCEPT !.answered = TRUE, !.status = 200, !.sent = req.challenge]
            ELSE [req EXCEPT !.answered = TRUE, !.status = 403, !.sent = <<"Forbidden">>]
  /\ UNCHANGED <<now, alive, conversations, messages, sessions, runs, nRuns, httpStatus, hs>>

\* app.post('/webhook') on the body of req
WebhookPostRequest ==
  /\ req.method = "POST" /\ ~req.answered
  /\ LET d == Dispatch(req.body)
     IN /\ Post(d)
        /\ req' = [req EXCEPT !.answered = TRUE, !.status = d.status,
                     !.sent = IF d.status = 200 THEN <<"OK">>
                              ELSE <<"Internal Server Error">>]

(***************************************************************************)
(* BotHandler.processMessage.  One action per awaited call: the action is  *)
(* the completion of the call together with the synchronous code that      *)
(* follows it up to the next await.  Every store query and every platform  *)
(* send either resolves or rejects.                                        *)
(***************************************************************************)
Running(r, at) == alive /\ runs[r].pc = at

\* the clock values an awaited call may complete at: time passes while the
\* call is in flight
Later == now..MaxTime

Set(r, new) == runs' = [runs EXCEPT ![r] = new]

\* a failed send that is logged and not rethrown: the try block goes on with
\* the outbound save
CaughtUnlessSend(run, failure) ==
  [run EXCEPT !.pc = IF failure = "send" THEN "saveOutbound" ELSE "catch",
              !.failure = failure]

\* a rejected call that is logged while the try block goes on
CaughtAndGoesOn(run, failure) == [run EXCEPT !.failure = failure]

\* an awaited call of the try block rejects: the catch block logs and starts
\* the apology send.  failure names the call that rejected because the store
\* or the platform was unavailable; "<call>:statement" is a query that
\* PostgreSQL rejects as written, "handleStep:TypeError" an error thrown by
\* handleStep
Caught(run, failure) == [run EXCEPT !.pc = "catch", !.failure = failure]

\* line 210: the conversation SELECT of getOrCreateConversation
SelectConversationStep(r) ==
  /\ Running(r, "selectConversation")
  /\ LET run == runs[r]
         found == SelectConversation(conversations, run.phoneNumber)
     IN \/ Set(r, Caught(run, "getOrCreateConversation"))
        \/ /\ found = <<>>
           /\ Set(r, [run EXCEPT !.pc = "insertConversation"])
        \/ /\ found # <<>>
           /\ Set(r, [run EXCEPT !.pc = "saveInbound",
                                 !.conversation = ConversationOf(found[1])])
  /\ UNCHANGED <<now, alive, conversations, messages, sessions, nRuns, httpStatus, hs, req>>

\* line 216: the conversation INSERT of getOrCreateConversation
InsertConversationStep(r) ==
  /\ Running(r, "insertConversation")
  /\ LET run == runs[r]
         table == InsertConversation(conversations, run.phoneNumber)
     IN \/ /\ Set(r, Caught(run, "getOrCreateConversation"))
           /\ UNCHANGED conversations
        \/ /\ conversations' = table
           /\ Set(r, [run EXCEPT !.pc = "saveInbound",
                                 !.conversation = ConversationOf(table[Len(table)])])
  /\ UNCHANGED <<now, alive, messages, sessions, nRuns, httpStatus, hs, req>>

InboundRow(run) ==
  [conversation_id |-> run.conversation.id, message_id |-> run.messageId,
   phone_number |-> run.phoneNumber, message_type |-> "text",
   content |-> run.messageText, media_url |-> Undefined, media_type |-> "none",
   direction |-> "inbound"]

\* lines 300-309: save the incoming message
SaveInboundStep(r) ==
  /\ Running(r, "saveInbound")
  /\ LET run == runs[r]
         res == saveMessage(messages, InboundRow(run))
     IN \/ /\ Set(r, Caught(run, "saveInbound"))
           /\ UNCHANGED messages
        \/ /\ messages' = res.rows
           /\ IF res.error THEN Set(r, Caught(run, "saveInbound:statement"))
              ELSE Set(r, [run EXCEPT !.pc = "getSession",
                     !.inbound = IF res.returned = <<>> THEN "norow" ELSE "row"])
  /\ UNCHANGED <<now, alive, conversations, sessions, nRuns, httpStatus, hs, req>>

\* lines 313-320: the session used when getSession returned no row
DefaultSession(phoneNumber, at) ==
  [phone_number |-> phoneNumber, session_data |-> EmptyData,
   current_step |-> "welcome", expires_at |-> at + SessionWindow]

\* lines 312-320: get the current session
GetSessionStep(r) ==
  /\ Running(r, "getSession")
  /\ LET run == runs[r]
     IN \/ /\ Set(r, Caught(run, "getSession"))
           /\ UNCHANGED now
        \/ \E at \in Later :
             LET found == getSession(sessions, run.phoneNumber, at)
             IN /\ now' = at
                /\ \/ /\ found = {}
                      /\ Set(r, [run EXCEPT !.pc = "handleStep", !.loaded = FALSE,
                            !.session = SessionOf(DefaultSession(run.phoneNumber, at))])
                   \/ \E row \in found :
                        Set(r, [run EXCEPT !.pc = "handleStep", !.loaded = TRUE,
                                           !.session = SessionOf(row)])
  /\ UNCHANGED <<alive, conversations, messages, sessions, nRuns, httpStatus, hs, req>>

\* what the generation endpoint may answer: a result with the field of each
\* kind, a result without them, the JSON literal null, or no answer (network
\* error, non-2xx status, timeout)
GoodData ==
  [imageUrl |-> <<"https://img.example/1.png">>,
   videoUrl |-> <<"https://vid.example/1.mp4">>,
   response |-> <<"Here's information">>]

Upstreams ==
  {[ok |-> TRUE, data |-> GoodData],
   [ok |-> TRUE, data |-> [imageUrl |-> Undefined, videoUrl |-> Undefined,
                           response |-> Undefined]],
   [ok |-> TRUE, data |-> NullResult],
   [ok |-> FALSE, data |-> GoodData]}

\* line 323: process based on current step
HandleStepStep(r) ==
  /\ Running(r, "handleStep")
  /\ LET run == runs[r]
     IN \E upstream \in Upstreams :
          LET response == handleStep(run.session, run.messageText,
                                     run.conversation, upstream)
          IN IF response = TypeError
             THEN Set(r, Caught(run, "handleStep:TypeError"))
             ELSE Set(r, [run EXCEPT !.pc = "send", !.response = response])
  /\ UNCHANGED <<now, alive, conversations, messages, sessions, nRuns, httpStatus, hs, req>>

\* lines 326-332: the WhatsAppService method that sends the response
SendMethod(response) ==
  CASE response.type = "text" -> "sendMessage"
    [] response.type = "media" -> "sendMedia"
    [] response.type = "interactive" -> "sendInteractiveMessage"
    [] OTHER -> "none"

\* lines 326-332: send response
SendStep(r) ==
  /\ Running(r, "send")
  /\ LET run == runs[r]
         method == SendMethod(run.response)
     IN \/ /\ method # "none"
           /\ Set(r, Caught([run EXCEPT !.sends =
                      Append(@, [what |-> "dialog", method |-> method, ok |-> FALSE])],
                    "send"))
        \/ Set(r, [run EXCEPT !.pc = "saveOutbound",
                  !.sends = IF method = "none" THEN @
                            ELSE Append(@, [what |-> "dialog", method |-> method,
                                            ok |-> TRUE])])
  /\ UNCHANGED <<now, alive, conversations, messages, sessions, nRuns, httpStatus, hs, req>>

OutboundRow(run, at) ==
  [conversation_id |-> run.conversation.id, message_id |-> <<"out_", at>>,
   phone_number |-> run.phoneNumber, message_type |-> run.response.type,
   content |-> Or(run.response.content, run.response.body),
   media_url |-> run.response.url, media_type |-> run.response.mediaType,
   direction |-> "outbound"]

\* lines 335-344: save outbound message
SaveOutboundStep(r) ==
  /\ Running(r, "saveOutbound")
  /\ LET run == runs[r]
     IN \/ /\ Set(r, Caught(run, "saveOutbound"))
           /\ UNCHANGED <<now, messages>>
        \/ \E at \in Later :
             LET res == saveMessage(messages, OutboundRow(run, at))
             IN /\ now' = at
                /\ messages' = res.rows
                /\ IF res.error
                   THEN Set(r, Caught([run EXCEPT !.outId = <<"out_", at>>], "saveOutbound:statement"))
                   ELSE Set(r, [run EXCEPT !.pc = "saveSession",
                          !.outId = <<"out_", at>>,
                          !.outbound = IF res.returned = <<>> THEN "norow" ELSE "row"])
  /\ UNCHANGED <<alive, conversations, sessions, nRuns, httpStatus, hs, req>>

\* response.nextStep || session.current_step
NextStepOf(run) ==
  IF run.response.nextStep = "none" THEN run.session.current_step
  ELSE run.response.nextStep

\* lines 347-352: update session (response.sessionData is an object, hence
\* truthy, in every return of handleStep)
SaveSessionStep(r) ==
  /\ Running(r, "saveSession")
  /\ LET run == runs[r]
     IN \/ /\ Set(r, Caught(run, "saveSession"))
           /\ UNCHANGED <<now, sessions>>
        \/ \E at \in Later :
             LET res == saveSession(sessions, run.phoneNumber, run.response.sessionData,
                                    NextStepOf(run), at + SessionWindow)
             IN /\ now' = at
                /\ sessions' = res.rows
                /\ IF res.error THEN Set(r, Caught(run, "saveSession:statement"))
                   ELSE Set(r, [run EXCEPT !.pc = "done"])
  /\ UNCHANGED <<alive, conversations, messages, nRuns, httpStatus, hs, req>>

\* lines 354-357: the apology send of the catch block; sendMessage rethrows,
\* nothing catches it, and the promise of processMessage rejects
CatchStep(r) ==
  /\ Running(r, "catch")
  /\ LET run == runs[r]
     IN \/ Set(r, [run EXCEPT !.pc = "done",
                  !.sends = Append(@, [what |-> "apology", method |-> "sendMessage",
                                       ok |-> TRUE])])
        \/ Set(r, [run EXCEPT !.pc = "rejected",
                  !.sends = Append(@, [what |-> "apology", method |-> "sendMessage",
                                       ok |-> FALSE])])
  /\ UNCHANGED <<now, alive, conversations, messages, sessions, nRuns, httpStatus, hs, req>>

\* lines 505-514: the async forEach callback awaits processMessage and
\* nothing handles its rejection; the runtime may end the process on an
\* unhandled rejection (the default of Node.js 15 and later) or only warn
UnhandledRejection ==
  /\ alive
  /\ \E r \in RunIds : runs[r].pc = "rejected"
  /\ alive' = FALSE
  /\ UNCHANGED <<now, conversations, messages, sessions, runs, nRuns, httpStatus, hs, req>>

NoCall == [called |-> FALSE, session |-> NoSession, messageText |-> <<>>,
           upstream |-> [ok |-> FALSE, data |-> GoodData], result |-> NoFields,
           again |-> FALSE, conversation2 |-> NoConversation, result2 |-> NoFields]

(***************************************************************************)
(* handleStep on its own: the arguments are drawn from the sets below and  *)
(* the function is applied to them.                                        *)
(***************************************************************************)
\* values of session.current_step: the five steps, a step the switch does
\* not know and a NULL column
DialogSteps ==
  {"welcome", "menu_selection", "image_input", "video_input", "info_input",
   "goodbye", "<null>"}

\* values of session.session_data
DialogData == {EmptyData, NullData, [service |-> "image"], [lang |-> "en"]}

\* inbound texts
SampleTexts ==
  {<<"h","i">>,
   <<"i","m","a","g","e">>,
   <<"I","M","A","G","E">>,
   <<"a","n"," ","I","m","A","g","E"," ","p","l","e","a","s","e">>,
   <<"G","e","n","e","r","a","t","e"," ","I","m","a","g","e">>,
   <<"v","i","d","e","o">>,
   <<"G","e","n","e","r","a","t","e"," ","V","i","d","e","o">>,
   <<"V","I","D","E","O"," ","o","f"," ","a","n"," ","i","m","a","g","e">>,
   <<"i","n","f","o","r","m","a","t","i","o","n">>,
   <<"G","e","t"," ","I","n","f","o","r","m","a","t","i","o","n">>,
   <<"I","N","F","O","R","M","A","T","I","O","N"," ","v","i","d","e","o">>,
   <<"G","e","t"," ","I","n","f","o">>,
   <<"i","m","a","g">>,
   <<"m","e","n","u">>,
   <<"G","e","n","e","r","a","t","e"," ","I","m","a","g","e"," ","G","e","n","e","r","a","t","e"," ","V","i","d","e","o">>}

DialogConversation == [id |-> 1, phone_number |-> "u1"]

DialogConversations == {DialogConversation, [id |-> 2, phone_number |-> "u2"]}

InitDialog ==
  /\ now = 0
  /\ alive = TRUE
  /\ conversations = <<>>
  /\ messages = <<>>
  /\ sessions = <<>>
  /\ runs = [r \in RunIds |-> IdleRun]
  /\ nRuns = 0
  /\ httpStatus = 0
  /\ hs \in [called : {FALSE},
              session : [session_data : DialogData, current_step : DialogSteps],
              messageText : SampleTexts,
              upstream : Upstreams,
              result : {NoFields},
              again : {FALSE},
              conversation2 : {NoConversation},
              result2 : {NoFields}]
  /\ req = NoRequest

\* await this.handleStep(session, messageText, conversation)
HandleStepCall ==
  /\ ~hs.called
  /\ hs' = [hs EXCEPT !.called = TRUE,
                      !.result = handleStep(hs.session, hs.messageText,
                                            DialogConversation, hs.upstream)]
  /\ UNCHANGED <<now, alive, conversations, messages, sessions, runs, nRuns, httpStatus, req>>

\* a second invocation with the same session, text and generation outcome,
\* for the conversation of either user
HandleStepAgain ==
  /\ hs.called /\ ~hs.again
  /\ \E c \in DialogConversations :
       hs' = [hs EXCEPT !.again = TRUE, !.conversation2 = c,
                        !.result2 = handleStep(hs.session, hs.messageText, c, hs.upstream)]
  /\ UNCHANGED <<now, alive, conversations, messages, sessions, runs, nRuns, httpStatus, req>>

NextDialog == HandleStepCall \/ HandleStepAgain

SpecDialog == InitDialog /\ [][NextDialog]_vars

(***************************************************************************)
(* The pipeline on a database that already holds sessions: the tables      *)
(* outlive the process (CREATE TABLE IF NOT EXISTS keeps their rows).      *)
(* u1 has a session that is live at time 0 and expires at time 1, u2 one   *)
(* that expired at time 0.                                                 *)
(***************************************************************************)
SeedSessions ==
  <<[phone_number |-> "u1", session_data |-> [service |-> "image"],
     current_step |-> "image_input", expires_at |-> 1],
    [phone_number |-> "u2", session_data |-> [service |-> "video"],
     current_step |-> "video_input", expires_at |-> 0]>>

InitSeeded ==
  /\ now = 0
  /\ alive = TRUE
  /\ conversations = <<>>
  /\ messages = <<>>
  /\ sessions = SeedSessions
  /\ runs = [r \in RunIds |-> IdleRun]
  /\ nRuns = 0
  /\ httpStatus = 0
  /\ hs = NoCall
  /\ req = NoRequest

\* a freshly initialised, empty database
Init ==
  /\ now = 0
  /\ alive = TRUE
  /\ conversations = <<>>
  /\ messages = <<>>
  /\ sessions = <<>>
  /\ runs = [r \in RunIds |-> IdleRun]
  /\ nRuns = 0
  /\ httpStatus = 0
  /\ hs = NoCall
  /\ req = NoRequest

Step(r) ==
  \/ SelectConversationStep(r)
  \/ InsertConversationStep(r)
  \/ SaveInboundStep(r)
  \/ GetSessionStep(r)
  \/ HandleStepStep(r)
  \/ SendStep(r)
  \/ SaveOutboundStep(r)
  \/ SaveSessionStep(r)
  \/ CatchStep(r)

Next ==
  \/ WebhookPost
  \/ \E r \in RunIds : Step(r)
  \/ UnhandledRejection

Spec == Init /\ [][Next]_vars

\* every awaited call of a run eventually resolves or rejects, as long as the
\* process is running
SpecLive == Init /\ [][Next]_vars /\ \A r \in RunIds : WF_vars(Step(r))

\* one request to /webhook on a freshly initialised database
InitHttp ==
  /\ now = 0
  /\ alive = TRUE
  /\ conversations = <<>>
  /\ messages = <<>>
  /\ sessions = <<>>
  /\ runs = [r \in RunIds |-> IdleRun]
  /\ nRuns = 0
  /\ httpStatus = 0
  /\ hs = NoCall
  /\ req \in GetRequests \cup PostRequests

NextHttp == WebhookGet \/ WebhookPostRequest

SpecHttp == InitHttp /\ [][NextHttp]_vars

SpecSeeded == InitSeeded /\ [][Next]_vars

(***************************************************************************)
(* Properties.                                                             *)
(***************************************************************************)
Started(r) == runs[r].pc # "idle"

\* the promise of processMessage has settled
Finished(r) == runs[r].pc \in {"done", "rejected"}

\* the sends of run r of one kind ("dialog" or "apology") that succeeded
SentOk(r, what) ==
  {i \in 1..Len(runs[r].sends) : runs[r].sends[i].what = what /\ runs[r].sends[i].ok}

RowsWithId(id) == {i \in 1..Len(messages) : messages[i].message_id = id}

\* the outbound row of a run whose saveMessage call has returned
OutboundRowOf(run) == [OutboundRow(run, 0) EXCEPT !.message_id = run.outId]

\* the saveMessage calls that have returned: the row passed and whether the
\* call returned a row
Calls ==
  {[run |-> r, dir |-> "inbound", row |-> InboundRow(runs[r]),
    returned |-> runs[r].inbound = "row"] :
     r \in {x \in RunIds : runs[x].inbound # "none"}}
  \cup
  {[run |-> r, dir |-> "outbound", row |-> OutboundRowOf(runs[r]),
    returned |-> runs[r].outbound = "row"] :
     r \in {x \in RunIds : runs[x].outbound # "none"}}

\* C1: saveMessage calls carrying the same message id leave exactly one row
\* with that id: the call that finds the id stored raises no error, returns no
\* row, and the stored row keeps every field the first call gave it.
C1_IdempotentSaveMessage ==
  /\ \A c \in Calls : Cardinality(RowsWithId(c.row.message_id)) = 1
  /\ \A c \in Calls : c.returned => \E i \in 1..Len(messages) : messages[i] = c.row
  /\ \A c, d \in Calls :
       (c # d /\ c.row.message_id = d.row.message_id) => ~(c.returned /\ d.returned)
  /\ \A r \in RunIds :
       runs[r].failure \notin {"saveInbound:statement", "saveOutbound:statement"}

\* two calls with the same id and different fields have returned, the first
\* with its row, the second with none
C1_Witness ==
  \E c, d \in Calls :
    /\ c.row.message_id = d.row.message_id
    /\ c.row # d.row
    /\ c.returned /\ ~d.returned

\* the inbound rows stored under a platform message id
InboundRowsWithId(id) == {i \in RowsWithId(id) : messages[i].direction = "inbound"}

\* two finished runs of the same inbound message
Redelivered(r, s) ==
  /\ r # s
  /\ Finished(r) /\ Finished(s)
  /\ runs[r].phoneNumber = runs[s].phoneNumber
  /\ runs[r].messageId = runs[s].messageId

\* the calls that come before the dialog response has been dispatched
UpToDispatch ==
  {"getOrCreateConversation", "saveInbound", "saveInbound:statement", "getSession",
   "handleStep:TypeError", "send"}

C3_Live(phoneNumber, at) ==
  {row \in RowsOf(sessions) : row.phone_number = phoneNumber /\ at < row.expires_at}

\* getSession completes for run r
C3_Returns(r) ==
  (runs[r].pc = "getSession" /\ runs'[r].pc = "handleStep") =>
    IF C3_Live(runs[r].phoneNumber, now') = {}
    THEN /\ ~runs'[r].loaded
         /\ runs'[r].session = [session_data |-> EmptyData, current_step |-> "welcome"]
    ELSE /\ runs'[r].loaded
         /\ \E row \in C3_Live(runs[r].phoneNumber, now') :
              runs'[r].session = SessionOf(row)

\* the response of a run whose getSession returned no row is the welcome menu
C3_Welcome(r) ==
  (runs[r].pc = "send" /\ ~runs[r].loaded) =>
    /\ runs[r].response.type = "interactive"
    /\ runs[r].response.buttons = MenuButtons
    /\ runs[r].response.nextStep = "menu_selection"
    /\ runs[r].response.sessionData = EmptyData

\* C3: getSession returns a row of the user only when its expires_at is
\* strictly later than the current time, and returns nothing when the time
\* has reached expires_at although the row exists; processMessage then runs
\* handleStep with step welcome and an empty payload.
C3_SessionExpiry ==
  /\ [](\A r \in RunIds : C3_Welcome(r))
  /\ [][\A r \in RunIds : C3_Returns(r)]_vars

\* a run got the welcome menu although a row of its user, with another step
\* and a payload, is stored: the row expires at the current time
C3_Witness ==
  \E r \in RunIds :
    /\ runs[r].pc = "send" /\ ~runs[r].loaded
    /\ runs[r].response.nextStep = "menu_selection"
    /\ \E row \in RowsOf(sessions) :
         /\ row.phone_number = runs[r].phoneNumber
         /\ row.expires_at = now
         /\ row.current_step = "image_input"

\* every call of the run succeeded as far as the store and the platform go
NoOutage(r) ==
  /\ runs[r].failure \in {"none", "saveSession:statement"}
  /\ \A i \in 1..Len(runs[r].sends) : runs[r].sends[i].ok

\* C4 as stated: at the end of a run in which no send and no generation call
\* failed, the stored session of the user holds the next step and payload
\* returned by handleStep and getSession returns it (here: for a user with
\* no other run, and no store outage either).
C4_SessionStored ==
  \A r \in RunIds :
    (/\ Finished(r)
     /\ NoOutage(r)
     /\ \A s \in RunIds \ {r} : runs[s].phoneNumber # runs[r].phoneNumber) =>
      \E row \in getSession(sessions, runs[r].phoneNumber, now) :
        /\ row.current_step = runs[r].response.nextStep
        /\ row.session_data = runs[r].response.sessionData

\* C5: there is at most one bot_sessions row per phone number.
C5_OneSessionPerUser ==
  \A u \in Users :
    Cardinality({i \in 1..Len(sessions) : sessions[i].phone_number = u}) <= 1

\* saveSession has been run twice for the same user
C5_Witness ==
  \E r, s \in RunIds :
    /\ r # s
    /\ runs[r].phoneNumber = runs[s].phoneNumber
    /\ runs[r].failure = "saveSession:statement"
    /\ runs[s].failure = "saveSession:statement"

\* C6 as stated: a run sends at most one message to the user, the dialog
\* response or the apology, never both.
C6_AtMostOneSend ==
  \A r \in RunIds :
    Cardinality({i \in 1..Len(runs[r].sends) : runs[r].sends[i].ok}) <= 1

\* C7 as stated: processMessage never rejects, also when the apology send
\* fails.
C7_NeverRejects == \A r \in RunIds : runs[r].pc # "rejected"

\* C8 as stated: a failure in one message's pipeline, its apology send
\* included, never keeps a sibling of the same delivery from completing.
C8_SiblingsComplete ==
  \A r, s \in RunIds :
    (/\ r # s
     /\ runs[r].delivery = runs[s].delivery
     /\ runs[r].pc = "rejected"
     /\ Started(s)) =>
      (alive \/ Finished(s))

\* the steps with a case of their own in handleStep, welcome apart
C9_OtherCases == {"menu_selection", "image_input", "video_input", "info_input"}

C9_IsMenu(result) ==
  /\ result.type = "interactive"
  /\ result.buttons = <<TitleImage, TitleVideo, TitleInfo>>
  /\ result.nextStep = "menu_selection"

\* C9 as stated: with step welcome, or a step that is absent or not one of the
\* other four, handleStep returns the interactive menu and next step
\* menu_selection.
C9_Original ==
  (hs.called /\ hs.session.current_step \notin C9_OtherCases) => C9_IsMenu(hs.result)

\* C9 amended: with step welcome handleStep returns the interactive menu with
\* the three buttons in order and next step menu_selection, for every text;
\* with a step that is absent or unknown it returns the text
\* 'Hi! Type "start" to begin or "menu" to see options.', next step welcome
\* and an empty payload.
C9_WelcomeAndDefault ==
  hs.called =>
    /\ hs.session.current_step = "welcome" => C9_IsMenu(hs.result)
    /\ hs.session.current_step \notin C9_OtherCases \cup {"welcome"} =>
         /\ hs.result.type = "text"
         /\ hs.result.content = <<"Hi! Type \"start\" to begin or \"menu\" to see options.">>
         /\ hs.result.nextStep = "welcome"
         /\ hs.result.sessionData = EmptyData

\* handleStep returned the menu for step welcome and a text naming a button
C9_Witness ==
  /\ hs.called
  /\ hs.session.current_step = "welcome"
  /\ hs.messageText = TitleVideo
  /\ hs.result.nextStep = "menu_selection"

\* word, in lower case, occurs in text whatever the case of its letters
C10_ContainsIgnoringCase(text, word) ==
  \E k \in 0..(Len(text) - Len(word)) :
    \A j \in 1..Len(word) : LowerChar(text[k + j]) = word[j]

C10_Picks(text, title, word) ==
  Includes(text, title) \/ C10_ContainsIgnoringCase(text, word)

\* the service a text selects: the first of image, video, info that matches
C10_Choice(text) ==
  IF C10_Picks(text, TitleImage, WordImage) THEN "image"
  ELSE IF C10_Picks(text, TitleVideo, WordVideo) THEN "video"
  ELSE IF C10_Picks(text, TitleInfo, WordInfo) THEN "info"
  ELSE "none"

\* C10: in step menu_selection the text is matched against Image, Video,
\* Information in that order and the first match decides: next step
\* image_input, video_input or info_input with the payload extended by
\* service; without a match the step stays menu_selection, the payload is
\* unchanged and a text asking for a valid option is returned.
C10_MenuSelection ==
  (hs.called /\ hs.session.current_step = "menu_selection") =>
    LET before == SessionDataOf(hs.session)
        after == hs.result.sessionData
        choice == C10_Choice(hs.messageText)
    IN /\ hs.result.type = "text"
       /\ IF choice = "none"
          THEN /\ hs.result.nextStep = "menu_selection"
               /\ after = before
               /\ hs.result.content = <<"Please select one of the options: Generate Image, Generate Video, or Get Information.">>
          ELSE /\ hs.result.nextStep =
                    (CASE choice = "image" -> "image_input"
                       [] choice = "video" -> "video_input"
                       [] choice = "info" -> "info_input")
               /\ DOMAIN after = (DOMAIN before) \cup {"service"}
               /\ after["service"] = choice
               /\ \A k \in (DOMAIN before) \ {"service"} : after[k] = before[k]

\* a text that names a video and an image selected the image service
C10_Witness ==
  /\ hs.called
  /\ hs.session.current_step = "menu_selection"
  /\ C10_Picks(hs.messageText, TitleVideo, WordVideo)
  /\ hs.result.nextStep = "image_input"
  /\ hs.session.session_data = [lang |-> "en"]

\* the steps that call the generation gateway
C11_InputSteps == {"image_input", "video_input", "info_input"}

\* the field of a generation result that the step reads
C11_Field(step, data) ==
  CASE step = "image_input" -> data.imageUrl
    [] step = "video_input" -> data.videoUrl
    [] step = "info_input" -> data.response

\* a descriptor of the kind of the step: media with a URL, or text
C11_WellFormed(step, result) ==
  CASE step = "image_input" ->
         result.type = "media" /\ result.mediaType = "image" /\ result.url # Undefined
    [] step = "video_input" ->
         result.type = "media" /\ result.mediaType = "video" /\ result.url # Undefined
    [] step = "info_input" ->
         result.type = "text" /\ result.content # Undefined

\* what the claim promises of a call in an input step
C11_Promise ==
  /\ hs.result # TypeError
  /\ hs.result.nextStep = "welcome"
  /\ hs.result.sessionData = EmptyData
  /\ C11_WellFormed(hs.session.current_step, hs.result)
  /\ ~hs.upstream.ok =>
       C11_Field(hs.session.current_step,
                 [imageUrl |-> hs.result.url, videoUrl |-> hs.result.url,
                  response |-> hs.result.content])
         = C11_Field(hs.session.current_step, FallbackResult)

C11_Answered ==
  \/ ~hs.upstream.ok
  \/ /\ hs.upstream.data # NullResult
     /\ C11_Field(hs.session.current_step, hs.upstream.data) # Undefined

C12_Walkable(body) ==
  \A i \in 1..Len(body.entry) : \A j \in 1..Len(body.entry[i]) :
    body.entry[i][j].field = "messages" => body.entry[i][j].hasValue

\* a POST is answered in the step that starts its pipelines, before any of
\* them has completed a call
C12_AnsweredAtStart ==
  nRuns' # nRuns =>
    /\ httpStatus' \in {200, 500}
    /\ \A r \in (nRuns + 1)..nRuns' :
         runs'[r].pc = "selectConversation" /\ runs'[r].sends = <<>>
    /\ \A r \in 1..nRuns : runs'[r] = runs[r]

\* no step of a pipeline, and no end of the process, changes the response
C12_Unaffected ==
  (nRuns' = nRuns /\ (runs' # runs \/ alive' # alive)) => httpStatus' = httpStatus

\* C12: the POST handler sends its response as soon as the pipelines of the
\* delivery have been started, before any of them has completed; the status
\* is 200 for every body the handler can walk, and nothing the pipelines do
\* later changes it.
C12_RespondsBeforeProcessing ==
  /\ [](\A body \in Bodies : C12_Walkable(body) => Dispatch(body).status = 200)
  /\ [][C12_AnsweredAtStart /\ C12_Unaffected]_vars

\* the delivery was answered 200 and one of its pipelines has been rejected
\* since, another is still running
C12_Witness ==
  /\ httpStatus = 200
  /\ \E r, t \in RunIds :
       /\ runs[r].delivery = runs[t].delivery
       /\ runs[r].pc = "rejected"
       /\ runs[t].pc = "saveInbound"

RECURSIVE C13_Concat(_)
C13_Concat(seqs) == IF seqs = <<>> THEN <<>> ELSE Head(seqs) \o C13_Concat(Tail(seqs))

\* the message objects of a change
C13_OfChange(c) == IF c.hasValue /\ c.hasMessages THEN c.messages ELSE <<>>

\* the message objects found in the changes of the entries of a body, in
\* payload order; fields: the change fields looked at
C13_MessageObjects(body, fields) ==
  C13_Concat([i \in 1..Len(body.entry) |->
    C13_Concat([j \in 1..Len(body.entry[i]) |->
      IF body.entry[i][j].field \in fields
      THEN C13_OfChange(body.entry[i][j]) ELSE <<>>])])

\* the delivery of req was accepted
C13_Accepted ==
  req.method = "POST" /\ req.answered /\ req.status = 200 /\ req.body.object = WA

\* processMessage was invoked once for each of the messages, in order
C13_InvokedFor(msgs) ==
  /\ nRuns = Len(msgs)
  /\ \A r \in 1..nRuns :
       /\ Started(r)
       /\ runs[r].phoneNumber = msgs[r].from
       /\ runs[r].messageId = msgs[r].id
       /\ runs[r].messageText = msgs[r].text

\* C13 as stated: for an accepted delivery processMessage is invoked exactly
\* once for each message object found in any change of any entry.
C13_Original ==
  C13_Accepted =>
    C13_InvokedFor(C13_MessageObjects(req.body, {"messages", "statuses"}))

\* C13 amended: for an accepted delivery processMessage is invoked exactly
\* once for each message object that carries a text body and is found in a
\* change of field messages of any entry; no such message is skipped, none is
\* processed twice, and no other message object is processed.
C13_OncePerTextMessage ==
  C13_Accepted =>
    C13_InvokedFor(SelectSeq(C13_MessageObjects(req.body, {"messages"}),
                             LAMBDA m : m.text # Undefined /\ m.text # <<>>))

\* a delivery with two entries, one message each, started two pipelines
C13_Witness ==
  /\ C13_Accepted
  /\ Len(req.body.entry) = 2
  /\ nRuns = 2
  /\ runs[1].messageId # runs[2].messageId

\* the request carries the token the process was started with
C14_Verified ==
  /\ req.mode = <<"subscribe">>
  /\ req.token # Undefined
  /\ req.token = req.configured

\* C14 as stated: the verification GET is answered 200 with the challenge as
\* body exactly when hub.mode is subscribe and hub.verify_token equals the
\* configured verify token; every other request, also one where mode or
\* token is missing, is answered 403.
C14_VerifyHandshake ==
  (req.method = "GET" /\ req.answered) =>
    IF C14_Verified
    THEN req.status = 200 /\ req.sent = req.challenge
    ELSE req.status = 403

\* the calls that may follow the call a run is waiting on
C15_Follows(pc) ==
  CASE pc = "idle" -> {"selectConversation"}
    [] pc = "selectConversation" -> {"insertConversation", "saveInbound", "catch"}
    [] pc = "insertConversation" -> {"saveInbound", "catch"}
    [] pc = "saveInbound" -> {"getSession", "catch"}
    [] pc = "getSession" -> {"handleStep", "catch"}
    [] pc = "handleStep" -> {"send", "catch"}
    [] pc = "send" -> {"saveOutbound", "catch"}
    [] pc = "saveOutbound" -> {"saveSession", "catch"}
    [] pc = "saveSession" -> {"done", "catch"}
    [] pc = "catch" -> {"done", "rejected"}
    [] OTHER -> {}

\* a run moves from one call to the next in the order of the source, and to
\* the catch block exactly when the call failed
C15_InOrder(r) ==
  runs'[r].pc # runs[r].pc =>
    /\ runs'[r].pc \in C15_Follows(runs[r].pc)
    /\ runs[r].pc # "catch" =>
         (runs'[r].pc = "catch" <=> runs'[r].failure # "none")

\* what a run holds shows that the earlier steps have completed: a failed run
\* is in the catch block or has ended, the inbound message is saved under a
\* resolved conversation, the session is loaded after the inbound save,
\* handleStep has run on a loaded session, the response dispatched is the one
\* handleStep returned, and the outbound save follows a successful dispatch
C15_Completed(r) ==
  LET run == runs[r] IN
  /\ run.failure # "none" => run.pc \in {"catch", "done", "rejected"}
  /\ run.inbound # "none" => run.conversation # NoConversation
  /\ run.session # NoSession => run.inbound # "none"
  /\ run.response # NoFields => run.session # NoSession
  /\ SentOk(r, "dialog") # {} => run.response # NoFields
  /\ run.outId # Undefined => SentOk(r, "dialog") # {}
  /\ run.pc = "saveSession" => run.outbound # "none"
  /\ (run.failure = "none" /\ run.pc = "done") => run.outbound # "none"

\* C15: within a run the steps happen in the order resolve conversation,
\* save inbound message, load session, handleStep, dispatch, save outbound
\* message, save session, each completed before the next begins, and no step
\* is started after an earlier one failed.
C15_StepsInOrder ==
  /\ [](\A r \in RunIds : C15_Completed(r))
  /\ [][\A r \in RunIds : C15_InOrder(r)]_vars

\* a run went through all seven steps, the last of which failed
C15_Witness ==
  \E r \in RunIds :
    /\ runs[r].pc = "catch"
    /\ runs[r].failure = "saveSession:statement"
    /\ runs[r].outbound = "row"
    /\ runs[r].inbound = "row"

\* C16 as stated: every successful dispatch whose outbound save has returned
\* is recorded as a row of its own, and the ids synthesized for outbound
\* messages are pairwise distinct, also for runs that save at the same clock
\* value.
C16_OutboundRecorded ==
  \A r \in RunIds :
    (SentOk(r, "dialog") # {} /\ runs[r].outbound # "none") =>
      /\ runs[r].outbound = "row"
      /\ Cardinality({i \in RowsWithId(runs[r].outId) :
                        messages[i] = OutboundRowOf(runs[r])}) = 1
      /\ \A t \in RunIds \ {r} :
           runs[t].outId # Undefined => runs[t].outId # runs[r].outId

\* the steps of the dialog
C17_Steps == {"welcome", "menu_selection", "image_input", "video_input", "info_input"}

\* handleStep returned a descriptor of a known kind and a next step of the
\* dialog
C17_Defined ==
  /\ hs.result # TypeError
  /\ hs.result.type \in {"text", "media", "interactive"}
  /\ hs.result.nextStep \in C17_Steps

C18_NoStoreWrite ==
  hs' # hs => UNCHANGED <<conversations, messages, sessions>>

\* C18: two invocations of handleStep with the same step, payload and text
\* and the same generation outcome return the same next step, payload and
\* response descriptor, and no invocation changes the store.
C18_Deterministic ==
  /\ [](hs.again => hs.result2 = hs.result)
  /\ [][C18_NoStoreWrite]_vars

\* step image_input was run a second time, for the conversation of another
\* user, on a generation call that succeeded
C18_Witness ==
  /\ hs.again
  /\ hs.session.current_step = "image_input"
  /\ hs.conversation2.phone_number = "u2"
  /\ hs.upstream.ok
  /\ hs.result2.url = GoodData.imageUrl

\* the conversations rows of a user
C19_ConversationsOf(u) ==
  {i \in 1..Len(conversations) : conversations[i].phone_number = u}

\* C19 as stated: after any interleaving of runs, two concurrent first
\* messages of an unseen user included, the store holds at most one
\* conversation row per user and all messages of the user reference it.
C19_OneConversationPerUser ==
  \A u \in Users :
    /\ Cardinality(C19_ConversationsOf(u)) <= 1
    /\ \A m \in RowsOf(messages) :
         m.phone_number = u =>
           \E i \in C19_ConversationsOf(u) : conversations[i].id = m.conversation_id

\* the step and payload stored for a user
C20_Stored(sess, phoneNumber) ==
  {SessionOf(row) : row \in {x \in RowsOf(sess) : x.phone_number = phoneNumber}}

\* the sessions a run may load from a table at a time
C20_Loaded(sess, phoneNumber, at) ==
  IF getSession(sess, phoneNumber, at) = {}
  THEN {SessionOf(DefaultSession(phoneNumber, at))}
  ELSE {SessionOf(row) : row \in getSession(sess, phoneNumber, at)}

\* the responses handleStep may return on a loaded session
C20_Responses(session, phoneNumber, text) ==
  {handleStep(session, text, [id |-> 1, phone_number |-> phoneNumber], upstream) :
     upstream \in Upstreams} \ {TypeError}

\* one message processed on its own from the table sess, starting at time
\* from: the tables its session load, handleStep and session save may leave,
\* each with the time of the save
C20_Alone(sess, phoneNumber, text, from) ==
  UNION {UNION {UNION {
    {[rows |-> saveSession(sess, phoneNumber, response.sessionData,
                           response.nextStep, at2 + SessionWindow).rows,
      at |-> at2] : at2 \in at..MaxTime} :
        response \in C20_Responses(session, phoneNumber, text)} :
          session \in C20_Loaded(sess, phoneNumber, at)} :
            at \in from..MaxTime}

\* the message of run a processed to its end, then the message of run b
C20_OneAfterTheOther(a, b) ==
  UNION {{C20_Stored(second.rows, runs[a].phoneNumber) :
            second \in C20_Alone(first.rows, runs[b].phoneNumber,
                                 runs[b].messageText, first.at)} :
           first \in C20_Alone(<<>>, runs[a].phoneNumber, runs[a].messageText, 0)}

\* the run has gone through its session load and its session save
C20_ReadAndWrote(r) ==
  Finished(r) /\ runs[r].failure \in {"none", "saveSession:statement"}

C21_DispatchFailed(r) == runs[r].failure = "send"

\* the outbound rows of the messages table
C21_OutboundRows == {i \in 1..Len(messages) : messages[i].direction = "outbound"}

\* a run whose dispatch failed has called neither the outbound save nor the
\* session save, and every outbound row was stored by a run whose outbound
\* save returned it
C21_NothingRecorded ==
  /\ \A r \in RunIds :
       C21_DispatchFailed(r) =>
         /\ runs[r].outbound = "none" /\ runs[r].outId = Undefined
         /\ runs[r].pc \in {"catch", "done", "rejected"}
  /\ Cardinality(C21_OutboundRows)
       = Cardinality({r \in RunIds : runs[r].outbound = "row"})

\* the step in which the dispatch of a run fails, and every later step of that
\* run, leaves the sessions and the messages as they are
C21_Untouched(r) ==
  (C21_DispatchFailed(r)' /\ runs'[r] # runs[r]) =>
    sessions' = sessions /\ messages' = messages

\* the sessions change only in the session save of a run that has sent its
\* response and saved its outbound message
C21_AdvancesAfterRecording ==
  sessions' # sessions =>
    \E r \in RunIds :
      /\ runs[r].pc = "saveSession" /\ runs'[r] # runs[r]
      /\ SentOk(r, "dialog") # {}
      /\ runs[r].outbound = "row"

\* C21: a run whose dispatch of the dialog response failed leaves the stored
\* session of the user as it was and stores no outbound message row; the
\* stored step advances only after the response was sent and recorded.
C21_FailedDispatchFrame ==
  /\ []C21_NothingRecorded
  /\ [][(\A r \in RunIds : C21_Untouched(r)) /\ C21_AdvancesAfterRecording]_vars

\* the dispatch failed in a run that had loaded the stored session of its
\* user, the run has ended, and the session is stored as before
C21_Witness ==
  \E r \in RunIds :
    /\ C21_DispatchFailed(r)
    /\ Finished(r)
    /\ runs[r].loaded
    /\ \E row \in RowsOf(sessions) :
         /\ row.phone_number = runs[r].phoneNumber
         /\ SessionOf(row) = runs[r].session
         /\ row.current_step = "image_input"

\* the service a step of the dialog has in its payload
C22_ServiceOf(step) ==
  CASE step = "image_input" -> "image"
    [] step = "video_input" -> "video"
    [] step = "info_input" -> "info"

\* a session row with a step of the dialog and, in an input step, the service
\* of that step in its payload
C22_WellFormed(row) ==
  /\ row.current_step \in C17_Steps
  /\ row.current_step \in C11_InputSteps =>
       /\ row.session_data # NullData
       /\ "service" \in DOMAIN row.session_data
       /\ row.session_data["service"] = C22_ServiceOf(row.current_step)

\* C22: every stored session has a current step among welcome,
\* menu_selection, image_input, video_input, info_input, and a stored input
\* step comes with a payload whose service is image, video or info
\* respectively, after any interleaving of runs.
C22_StoredSessionsWellFormed ==
  \A row \in RowsOf(sessions) : C22_WellFormed(row)

\* a run of a user whose stored step is image_input with service image has
\* gone through its session save
C22_Witness ==
  \E r \in RunIds :
    /\ runs[r].failure = "saveSession:statement"
    /\ runs[r].loaded
    /\ \E row \in RowsOf(sessions) :
         /\ row.phone_number = runs[r].phoneNumber
         /\ row.current_step = "image_input"
         /\ row.session_data["service"] = "image"

\* a run that has finished has attempted a send to its user
C23_SendAttempted(r) == Finished(r) => Len(runs[r].sends) >= 1

\* C23 as stated: when every store, generation and platform call eventually
\* returns, every started run eventually finishes, having attempted at least
\* one send to its user (the dialog response or the apology).
C23_Terminates ==
  \A r \in RunIds :
    /\ Started(r) ~> Finished(r)
    /\ []C23_SendAttempted(r)

\* C24 as stated: a verification GET that carries no hub.verify_token is
\* never answered with HTTP 200, whether or not a verify token is configured.
C24_NoTokenNo200 ==
  (req.method = "GET" /\ req.answered /\ req.token = Undefined) => req.status # 200

====
